---- MODULE Spec2Model ----
(***************************************************************************)
(* Model of the two year organisers of this repository:                    *)
(*   disk_date_separator.organize_files  ("dds", anchor = source dir)      *)
(*   folder_year_organiser.move_files    ("fyo", anchor = source parent)   *)
(* The file system is a set of directory paths and a map from file paths   *)
(* to file contents.  A path is a sequence of names below the parent of    *)
(* the source directory (the empty sequence is that parent).               *)
(* Symbolic links to directories and cross-volume moves are not modelled;  *)
(* a file that is not readable is one os.stat cannot read (for instance a   *)
(* dangling link, which os.walk lists among the files).                    *)
(***************************************************************************)
EXTENDS Integers, Sequences, FiniteSets, TLC

VARIABLES prog, copy, dry_run,        \* which program runs, and its flags
          diskDirs, diskFiles,        \* the file system
          pc,                         \* position of the run
          stack,                      \* os.walk: directories still to list
          files_to_process,           \* dds: the collected file list
          files,                      \* fyo: the files of the yielded directory
          cleanup_dirs,               \* dds: directories cleanup still visits
          moved_count, error_count,   \* the run's counters
          exit_status,                \* -1 while running, then 0 or 1
          log,                        \* per processed file: its path and outcome
          run,                        \* number of the current invocation
          before                      \* the file system when this run started

vars == <<prog, copy, dry_run, diskDirs, diskFiles, pc, stack,
          files_to_process, files, cleanup_dirs, moved_count, error_count,
          exit_status, log, run, before>>

(* ------------------------------ bounds --------------------------------- *)

MaxRuns == 2
MaxFiles == 3

(* ------------------------------- names --------------------------------- *)

Names == {"p", "a", "s", "2020", "2021"}

Years == {2020, 2021}

Chars(n) ==
  CASE n = "p" -> <<"p">>
    [] n = "a" -> <<"a">>
    [] n = "s" -> <<"s">>
    [] n = "2020" -> <<"2", "0", "2", "0">>
    [] n = "2021" -> <<"2", "0", "2", "1">>

DigitChar(k) ==
  CASE k = 0 -> "0" [] k = 1 -> "1" [] k = 2 -> "2" [] k = 3 -> "3"
    [] k = 4 -> "4" [] k = 5 -> "5" [] k = 6 -> "6" [] k = 7 -> "7"
    [] k = 8 -> "8" [] k = 9 -> "9"

IsDigit(n) ==
  /\ Len(Chars(n)) > 0
  /\ \A i \in 1..Len(Chars(n)) : \E k \in 0..9 : Chars(n)[i] = DigitChar(k)

\* d.isdigit() and len(d) == 4
IsYearName(d) == IsDigit(d) /\ Len(Chars(d)) = 4

RECURSIVE Digits(_)
Digits(n) ==
  IF n < 10 THEN <<DigitChar(n)>>
  ELSE Append(Digits(n \div 10), DigitChar(n % 10))

\* str(year)
Str(year) == CHOOSE n \in Names : Chars(n) = Digits(year)

(* ------------------------------- paths --------------------------------- *)

Parent(q) == SubSeq(q, 1, Len(q) - 1)

Name(q) == q[Len(q)]

IsPrefix(a, b) == Len(a) <= Len(b) /\ SubSeq(b, 1, Len(a)) = a

IsUnder(q, d) == IsPrefix(d, q) /\ q # d

RelativeTo(q, anchor) == SubSeq(q, Len(anchor) + 1, Len(q))

Prefixes(q) == {SubSeq(q, 1, k) : k \in 0..Len(q)}

source_path == <<"p">>

Perms(S) ==
  {s \in [1..Cardinality(S) -> S] : \A i, j \in 1..Cardinality(S) : s[i] = s[j] => i = j}

(* ---------------------------- file system ------------------------------ *)

Exists(D, F, q) == q \in D \/ q \in DOMAIN F

SubDirs(D, d) == {q \in D : q # <<>> /\ Parent(q) = d}

NonDirs(F, d) == {q \in DOMAIN F : Parent(q) = d}

\* os.listdir(d) == []
IsEmptyDir(D, F, d) == SubDirs(D, d) = {} /\ NonDirs(F, d) = {}

\* Path.mkdir(parents=True, exist_ok=True)
MkdirFails(F, d) == \E q \in Prefixes(d) : q \in DOMAIN F

Mkdir(D, d) == D \cup Prefixes(d)

\* shutil.move / shutil.copy2: a destination that is a directory receives
\* the file under its own name
RealDst(D, src, dst) == IF dst \in D THEN Append(dst, Name(src)) ELSE dst

MoveFails(D, F, src, dst) ==
  \/ src \notin DOMAIN F
  \/ dst \in D /\ Exists(D, F, RealDst(D, src, dst))

Move(D, F, src, dst) ==
  [q \in (DOMAIN F \ {src}) \cup {RealDst(D, src, dst)} |->
     IF q = RealDst(D, src, dst) THEN F[src] ELSE F[q]]

CopyFails(D, F, src, dst) ==
  \/ src \notin DOMAIN F
  \/ RealDst(D, src, dst) \in D

Copy2(D, F, src, dst) ==
  [q \in DOMAIN F \cup {RealDst(D, src, dst)} |->
     IF q = RealDst(D, src, dst) THEN F[src] ELSE F[q]]

\* file_creation_date(file_path) raises when os.stat cannot read the file
StatFails(F, q) == q \notin DOMAIN F \/ ~F[q].readable

\* file_creation_date(file_path).year
YearOf(F, q) == F[q].year

(* --------------------------- initial trees ----------------------------- *)

Allowed(q) ==
  CASE q = <<"p">>              -> {"none", "file", "dir"}
    [] q = <<"p", "a">>         -> {"none", "file"}
    [] q = <<"p", "s">>         -> {"none", "dir"}
    [] q = <<"p", "s", "a">>    -> {"none", "file"}
    [] q = <<"p", "2020">>      -> {"none", "file", "dir"}
    [] q = <<"p", "2020", "a">> -> {"none", "file", "dir"}
    [] q = <<"p", "2021">>      -> {"none", "dir"}
    [] q = <<"2020">>           -> {"none", "file", "dir"}
    [] q = <<"2020", "p">>      -> {"none", "dir"}
    [] q = <<"2020", "p", "a">> -> {"none", "file", "dir"}

UPaths ==
  {<<"p">>, <<"p", "a">>, <<"p", "s">>, <<"p", "s", "a">>, <<"p", "2020">>,
   <<"p", "2020", "a">>, <<"p", "2021">>, <<"2020">>, <<"2020", "p">>,
   <<"2020", "p", "a">>}

\* files the scanners can reach get any year, readable or not (an unreadable
\* file has no year; the field is then fixed); files that already sit in a
\* year directory carry that year
Stats(q) ==
  IF q \in {<<"p", "a">>, <<"p", "s", "a">>, <<"p", "2020">>}
  THEN [readable : {TRUE}, year : Years] \cup [readable : {FALSE}, year : {2020}]
  ELSE [readable : {TRUE}, year : {2020}]

Trees ==
  {t \in [UPaths -> {"none", "file", "dir"}] :
     /\ \A q \in UPaths : t[q] \in Allowed(q)
     /\ \A q \in UPaths : t[q] # "none" /\ Len(q) > 1 => t[Parent(q)] = "dir"
     /\ Cardinality({q \in UPaths : t[q] = "file"}) <= MaxFiles}

Init ==
  /\ prog \in {"dds", "fyo"}
  /\ dry_run \in BOOLEAN
  /\ copy \in IF prog = "fyo" THEN BOOLEAN ELSE {FALSE}
  /\ \E t \in Trees :
       /\ diskDirs = {<<>>} \cup {q \in UPaths : t[q] = "dir"}
       /\ \E st \in [{q \in UPaths : t[q] = "file"} -> [readable : BOOLEAN, year : Years]] :
            /\ \A q \in DOMAIN st : st[q] \in Stats(q)
            /\ diskFiles = [q \in DOMAIN st |->
                             [id |-> q, readable |-> st[q].readable, year |-> st[q].year]]
  /\ pc = "start"
  /\ stack = <<>>
  /\ files_to_process = <<>>
  /\ files = <<>>
  /\ cleanup_dirs = {}
  /\ moved_count = 0
  /\ error_count = 0
  /\ exit_status = -1
  /\ log = <<>>
  /\ run = 1
  /\ before = [dirs |-> diskDirs, files |-> diskFiles]

(* ------------------- disk_date_separator.organize_files ---------------- *)

\* if not dry_run: (guards mkdir and shutil.move)
DdsApplies(dr) == ~dr

\* if not dry_run: cleanup_empty_dirs(source_path)
DdsCleans(dr) == ~dr

CountErrorDropped(e) == e

\* error_count += 1
CountError(e) == e + 1

\* the body of the per-file try block: the file system it leaves and the
\* branch it took
DdsOutcome(D, F, file_path, dr) ==
  IF StatFails(F, file_path)
  THEN [dirs |-> D, files |-> F, result |-> "error"]
  ELSE
    LET year == YearOf(F, file_path)
        relative_path == RelativeTo(file_path, source_path)
        year_dir == Append(source_path, Str(year))
        new_file_path == year_dir \o relative_path
        D2 == Mkdir(D, Parent(new_file_path))
    IN  IF file_path = new_file_path
        THEN [dirs |-> D, files |-> F, result |-> "skip"]
        ELSE IF ~DdsApplies(dr)
        THEN [dirs |-> D, files |-> F, result |-> "dry"]
        ELSE IF MkdirFails(F, Parent(new_file_path))
        THEN [dirs |-> D, files |-> F, result |-> "error"]
        ELSE IF MoveFails(D2, F, file_path, new_file_path)
        THEN [dirs |-> D2, files |-> F, result |-> "error"]
        ELSE [dirs |-> D2, files |-> Move(D2, F, file_path, new_file_path),
              result |-> "moved"]

\* the existence checks, sys.exit(1), and the start of os.walk(source_path)
DDS_Start ==
  /\ prog = "dds" /\ pc = "start"
  /\ IF source_path \notin diskDirs
     THEN /\ pc' = "aborted"
          /\ exit_status' = 1
          /\ stack' = stack
     ELSE /\ pc' = "walk"
          /\ exit_status' = exit_status
          /\ stack' = <<source_path>>
  /\ UNCHANGED <<prog, copy, dry_run, diskDirs, diskFiles, files_to_process,
                 files, cleanup_dirs, moved_count, error_count, log, run, before>>

\* one iteration of "for root, dirs, files in os.walk(source_path)": the
\* year directories of the root are taken out of dirs, the files are appended
DDS_Walk ==
  /\ prog = "dds" /\ pc = "walk" /\ stack # <<>>
  /\ LET root_path == Head(stack)
         dirs == IF root_path = source_path
                 THEN {d \in SubDirs(diskDirs, root_path) : ~IsYearName(Name(d))}
                 ELSE SubDirs(diskDirs, root_path)
     IN  \E ds \in Perms(dirs), fs \in Perms(NonDirs(diskFiles, root_path)) :
           /\ stack' = ds \o Tail(stack)
           /\ files_to_process' = files_to_process \o fs
           /\ pc' = IF stack' = <<>> THEN "process" ELSE "walk"
  /\ UNCHANGED <<prog, copy, dry_run, diskDirs, diskFiles, files, cleanup_dirs,
                 moved_count, error_count, exit_status, log, run, before>>

\* one iteration of "for file_path in files_to_process"
DDS_ProcessFile ==
  /\ prog = "dds" /\ pc = "process" /\ files_to_process # <<>>
  /\ LET file_path == Head(files_to_process)
         o == DdsOutcome(diskDirs, diskFiles, file_path, dry_run)
     IN  /\ diskDirs' = o.dirs
         /\ diskFiles' = o.files
         /\ moved_count' = IF o.result \in {"moved", "dry"}
                           THEN moved_count + 1 ELSE moved_count
         /\ error_count' = IF o.result = "error"
                           THEN CountError(error_count) ELSE error_count
         /\ log' = Append(log, [file |-> file_path, result |-> o.result])
         /\ files_to_process' = Tail(files_to_process)
  /\ UNCHANGED <<prog, copy, dry_run, pc, stack, files, cleanup_dirs,
                 exit_status, run, before>>

\* the summary, then cleanup_empty_dirs unless dry_run; os.walk(topdown=False)
\* visits every directory of the tree, each after the directories below it
DDS_Summary ==
  /\ prog = "dds" /\ pc = "process" /\ files_to_process = <<>>
  /\ IF DdsCleans(dry_run)
     THEN /\ pc' = "cleanup"
          /\ cleanup_dirs' = {d \in diskDirs : IsPrefix(source_path, d)}
          /\ exit_status' = exit_status
     ELSE /\ pc' = "done"
          /\ cleanup_dirs' = cleanup_dirs
          /\ exit_status' = 0
  /\ UNCHANGED <<prog, copy, dry_run, diskDirs, diskFiles, stack,
                 files_to_process, files, moved_count, error_count, log, run,
                 before>>

ProtectedRootOnly(root_dir, root_path) == root_dir = root_path

\* the two "continue" tests of cleanup_empty_dirs
Protected(root_dir, root_path) ==
  \/ root_dir = root_path
  \/ Parent(root_dir) = root_path /\ IsYearName(Name(root_dir))

\* one iteration of the loop of cleanup_empty_dirs
DDS_Cleanup ==
  /\ prog = "dds" /\ pc = "cleanup" /\ cleanup_dirs # {}
  /\ \E root_dir \in cleanup_dirs :
       /\ \A d \in cleanup_dirs : ~IsUnder(d, root_dir)
       /\ cleanup_dirs' = cleanup_dirs \ {root_dir}
       /\ diskDirs' = IF /\ ~Protected(root_dir, source_path)
                         /\ IsEmptyDir(diskDirs, diskFiles, root_dir)
                      THEN diskDirs \ {root_dir}
                      ELSE diskDirs
       /\ pc' = IF cleanup_dirs' = {} THEN "done" ELSE "cleanup"
       /\ exit_status' = IF cleanup_dirs' = {} THEN 0 ELSE exit_status
  /\ UNCHANGED <<prog, copy, dry_run, diskFiles, stack, files_to_process,
                 files, moved_count, error_count, log, run, before>>

(* ------------------- folder_year_organiser.move_files ------------------ *)

FyoAppliesAlways(dr) == TRUE

\* if not dry_run: (guards the transfer and moved_count += 1)
FyoApplies(dr) == ~dr

\* the body of the per-file try block
FyoOutcome(D, F, file_path, cp, dr) ==
  IF StatFails(F, file_path)
  THEN [dirs |-> D, files |-> F, result |-> "error"]
  ELSE
    LET year == YearOf(F, file_path)
        relative_path == RelativeTo(file_path, Parent(source_path))
        new_file_path == Append(Parent(source_path), Str(year)) \o relative_path
        D2 == Mkdir(D, Parent(new_file_path))
    IN  IF ~FyoApplies(dr)
        THEN [dirs |-> D, files |-> F, result |-> "dry"]
        ELSE IF MkdirFails(F, Parent(new_file_path))
        THEN [dirs |-> D, files |-> F, result |-> "error"]
        ELSE IF cp
        THEN IF CopyFails(D2, F, file_path, new_file_path)
             THEN [dirs |-> D2, files |-> F, result |-> "error"]
             ELSE [dirs |-> D2, files |-> Copy2(D2, F, file_path, new_file_path),
                   result |-> "copied"]
        ELSE IF MoveFails(D2, F, file_path, new_file_path)
             THEN [dirs |-> D2, files |-> F, result |-> "error"]
             ELSE [dirs |-> D2, files |-> Move(D2, F, file_path, new_file_path),
                   result |-> "moved"]

\* move_files starts os.walk(source_dir) without looking at source_dir
FYO_Start ==
  /\ prog = "fyo" /\ pc = "start"
  /\ pc' = "walk"
  /\ stack' = <<source_path>>
  /\ UNCHANGED <<prog, copy, dry_run, diskDirs, diskFiles, files_to_process,
                 files, cleanup_dirs, moved_count, error_count, exit_status,
                 log, run, before>>

\* os.walk lists the next directory once the files of the previous one are
\* handled; a path it cannot list yields nothing
FYO_Walk ==
  /\ prog = "fyo" /\ pc = "walk" /\ files = <<>> /\ stack # <<>>
  /\ LET root_path == Head(stack)
     IN  IF root_path \notin diskDirs
         THEN /\ stack' = Tail(stack)
              /\ files' = files
         ELSE \E ds \in Perms(SubDirs(diskDirs, root_path)),
                 fs \in Perms(NonDirs(diskFiles, root_path)) :
                /\ stack' = ds \o Tail(stack)
                /\ files' = fs
  /\ UNCHANGED <<prog, copy, dry_run, diskDirs, diskFiles, pc,
                 files_to_process, cleanup_dirs, moved_count, error_count,
                 exit_status, log, run, before>>

\* one iteration of "for filename in files"
FYO_ProcessFile ==
  /\ prog = "fyo" /\ pc = "walk" /\ files # <<>>
  /\ LET file_path == Head(files)
         o == FyoOutcome(diskDirs, diskFiles, file_path, copy, dry_run)
     IN  /\ diskDirs' = o.dirs
         /\ diskFiles' = o.files
         /\ moved_count' = IF o.result \in {"moved", "copied"}
                           THEN moved_count + 1 ELSE moved_count
         /\ error_count' = IF o.result = "error"
                           THEN CountError(error_count) ELSE error_count
         /\ log' = Append(log, [file |-> file_path, result |-> o.result])
         /\ files' = Tail(files)
  /\ UNCHANGED <<prog, copy, dry_run, pc, stack, files_to_process,
                 cleanup_dirs, exit_status, run, before>>

\* return moved_count, error_count; the main block prints the summary
FYO_Return ==
  /\ prog = "fyo" /\ pc = "walk" /\ files = <<>> /\ stack = <<>>
  /\ pc' = "done"
  /\ exit_status' = 0
  /\ UNCHANGED <<prog, copy, dry_run, diskDirs, diskFiles, stack,
                 files_to_process, files, cleanup_dirs, moved_count,
                 error_count, log, run, before>>

(* ------------------------------ the runs ------------------------------- *)

\* the same command is invoked again on the tree the previous run left
NextRun ==
  /\ pc \in {"done", "aborted"} /\ run < MaxRuns
  /\ run' = run + 1
  /\ before' = [dirs |-> diskDirs, files |-> diskFiles]
  /\ pc' = "start"
  /\ stack' = <<>>
  /\ files_to_process' = <<>>
  /\ files' = <<>>
  /\ cleanup_dirs' = {}
  /\ moved_count' = 0
  /\ error_count' = 0
  /\ exit_status' = -1
  /\ log' = <<>>
  /\ UNCHANGED <<prog, copy, dry_run, diskDirs, diskFiles>>

Next ==
  \/ DDS_Start
  \/ DDS_Walk
  \/ DDS_ProcessFile
  \/ DDS_Summary
  \/ DDS_Cleanup
  \/ FYO_Start
  \/ FYO_Walk
  \/ FYO_ProcessFile
  \/ FYO_Return
  \/ NextRun

Spec == Init /\ [][Next]_vars

(* ------------------------------ the claims ----------------------------- *)

\* the directory both relative paths are taken from
Anchor == IF prog = "dds" THEN source_path ELSE Parent(source_path)

\* anchor / year / (path relative to the anchor), for a file of the tree the
\* run started on
Dest(f) == Append(Anchor, Str(before.files[f].year)) \o RelativeTo(f, Anchor)

\* the files a recursive descent of the source directory reaches in the tree
\* the run started on (dds leaves out the year directories of the root)
Scannable ==
  IF source_path \notin before.dirs THEN {}
  ELSE {q \in DOMAIN before.files :
          /\ IsUnder(q, source_path)
          /\ prog = "dds" => ~(Len(q) > 2 /\ IsYearName(q[2]))}

DiskChanged == diskDirs # before.dirs \/ diskFiles # before.files

\* C1: after a move-mode run that is not a dry run, every file processed
\* without error is at anchor/year/relative-path with its content, and no
\* longer at its original path.
C1_MovedFileAtDestination ==
  (pc = "done" /\ ~dry_run /\ ~copy) =>
    \A i \in 1..Len(log) :
      log[i].result = "moved" =>
        /\ log[i].file \notin DOMAIN diskFiles
        /\ Dest(log[i].file) \in DOMAIN diskFiles
        /\ diskFiles[Dest(log[i].file)] = before.files[log[i].file]

\* C2: a dry run never changes the file system, in either program and also
\* together with --copy: directories and files stay as they were at its start.
C2_DryRunNeverMutates ==
  dry_run => (diskDirs = before.dirs /\ diskFiles = before.files)

C2_Witness ==
  /\ prog = "fyo" /\ copy /\ dry_run /\ pc = "done"
  /\ Len(log) >= 2
  /\ \A i \in 1..Len(log) : log[i].result = "dry"

\* C3: after a run, every file content of the tree the run started on still
\* exists at some path (a relocation overwrites nothing).
C3_NoContentLost ==
  pc = "done" =>
    \A q \in DOMAIN before.files :
      \E r \in DOMAIN diskFiles : diskFiles[r] = before.files[q]

\* C4: a second run that is not a dry run leaves the tree the first run
\* produced unchanged.
C4_SecondRunChangesNothing ==
  (run >= 2 /\ ~dry_run) => ~DiskChanged

\* C5: when the source is missing or not a directory, nothing is processed
\* or changed and the run ends aborted with exit status 1.
C5_MissingSourceAborts ==
  source_path \notin before.dirs =>
    /\ log = <<>>
    /\ ~DiskChanged
    /\ pc \in {"done", "aborted"} => (pc = "aborted" /\ exit_status = 1)

\* C6: a run ends with exit status 0 having processed every file the scan
\* reaches exactly once; the error counter is the number of files that
\* failed, and every other file is relocated unless the run is a dry run,
\* wherever the failing files fall in the order.
C6_FailuresDoNotStopRun ==
  pc = "done" =>
    /\ exit_status = 0
    /\ {log[i].file : i \in 1..Len(log)} = Scannable
    /\ Len(log) = Cardinality(Scannable)
    /\ error_count = Cardinality({i \in 1..Len(log) : log[i].result = "error"})
    /\ ~dry_run =>
         \A i \in 1..Len(log) :
           log[i].result # "error" =>
             \E r \in DOMAIN diskFiles :
               r # log[i].file /\ diskFiles[r] = before.files[log[i].file]

C6_Witness ==
  /\ pc = "done" /\ ~dry_run
  /\ \E i, j \in 1..Len(log) :
       /\ i < j
       /\ log[i].result = "error"
       /\ log[j].result \in {"moved", "copied"}

\* C7: at the end of a run in any mode, files processed plus errors equals
\* the number of discovered files.
C7_CountersAccountForEveryFile ==
  pc = "done" => moved_count + error_count = Cardinality(Scannable)

\* C8: after a move-mode run of folder_year_organiser in which every file was
\* relocated, the source directory and all of its subdirectories are gone.
C8_SourceTreePruned ==
  (/\ prog = "fyo" /\ pc = "done" /\ ~dry_run /\ ~copy
   /\ error_count = 0 /\ moved_count > 0) =>
    \A d \in before.dirs : IsPrefix(source_path, d) => d \notin diskDirs

\* C9: a directory is only ever removed when it holds no file and no
\* directory at that moment, and it is never the source root nor a child of
\* the source root named by a 4-digit year.
C9_CleanupRemovesOnlyEmptyUnprotected ==
  [][\A d \in diskDirs \ diskDirs' :
       /\ \A q \in diskDirs \cup DOMAIN diskFiles : ~IsUnder(q, d)
       /\ d # source_path
       /\ ~(Parent(d) = source_path /\ IsYearName(Name(d)))]_vars

C9_Witness ==
  /\ prog = "dds" /\ pc = "done"
  /\ before.dirs \ diskDirs # {}
  /\ \E y \in diskDirs :
       /\ Parent(y) = source_path /\ IsYearName(Name(y))
       /\ \A q \in diskDirs \cup DOMAIN diskFiles : ~IsUnder(q, y)

\* C10: nothing is moved, copied or created before the enumeration of the
\* files is complete.
C10_ScanIsSnapshot ==
  DiskChanged => stack = <<>>

====
